---- MODULE Spec2Model ----
(***************************************************************************)
(* LocalRunManager of codalab/worker/local_run/local_run_manager.py: the   *)
(* registry of runs (self._runs), the lock discipline of its public        *)
(* operations, the CPU/GPU allocator, the snapshot save/load and the       *)
(* write guard.  The per-run state machine (local_run_state.py), the       *)
(* state committer and BundleInfo/RunResources conversions are not part    *)
(* of the source at hand and are modelled from the specification text.     *)
(***************************************************************************)
EXTENDS Integers, Sequences, FiniteSets, TLC

VARIABLES
    runs,        \* self._runs: dict uuid -> LocalRunState, in insertion order
    stop_flag,   \* self._stop
    node_cpuset, \* self._cpuset
    node_gpuset, \* self._gpuset
    set_order,   \* iteration order of a Python set of index strings (per process)
    containers,  \* container runtime: ids of the containers that exist
    exited,      \* container runtime: ids of the containers that have exited
    ready,       \* bundles whose image and dependencies are READY
    committed,   \* the state committer's file: the last committed snapshot
    networks,    \* TRUE while the three docker networks exist
    fs,          \* contents of the bundle directories: location -> string
    kill_t,      \* thread inside kill(): [pc, run_state]
    mf_t,        \* thread inside mark_finalized(): [pc, uuid]
    create_t,    \* thread inside create_run(): [pc, run_state]
    stop_t,      \* thread inside stop(): pc
    ka_t,        \* thread inside kill_all(): [pc, attempt]
    saved,       \* observation: the registry as save_state last read it
    starts,      \* number of worker processes started on the committed snapshot
    last_op      \* observation: the operation that took the last step

vars == <<runs, stop_flag, node_cpuset, node_gpuset, set_order, containers,
          exited, ready, committed, networks, fs, kill_t, mf_t,
          create_t, stop_t, ka_t, saved, starts, last_op>>

----------------------------------------------------------------------------
\* Bounds of the model.
NumCpus == 2
NumGpus == 1
MaxContainers == 2
MaxPathLen == 2
MaxFiles == 1
MaxStarts == 1
\* KILL_TIMEOUT is 100 in the source; the model runs kill_all's loop this often.
KILL_TIMEOUT == 2

UUIDs == {"u1", "u2"}

\* Index strings "0", "1", ... of the node's CPUs and GPUs.
IdxName == <<"0", "1", "2", "3">>
Indices(n) == {IdxName[i] : i \in 1..n}
MaxIdx == IF NumCpus > NumGpus THEN NumCpus ELSE NumGpus

\* Optional values: None, or Some(x).
None == <<>>
Some(x) == <<x>>
IsSome(o) == Len(o) = 1
Val(o) == o[1]

----------------------------------------------------------------------------
\* LocalRunStage, in lifecycle order.
PREPARING == "PREPARING"
RUNNING == "RUNNING"
CLEANING_UP == "CLEANING_UP"
UPLOADING_RESULTS == "UPLOADING_RESULTS"
FINALIZING == "FINALIZING"
FINISHED == "FINISHED"

StageIndex(s) ==
    CASE s = PREPARING -> 0
      [] s = RUNNING -> 1
      [] s = CLEANING_UP -> 2
      [] s = UPLOADING_RESULTS -> 3
      [] s = FINALIZING -> 4
      [] s = FINISHED -> 5

----------------------------------------------------------------------------
\* A Python dict as the sequence of its <<key, value>> items, in insertion
\* order.
Keys(d) == {d[i][1] : i \in 1..Len(d)}
Has(d, k) == k \in Keys(d)
Get(d, k) == d[CHOOSE i \in 1..Len(d) : d[i][1] = k][2]
\* d[k] = v: an existing key keeps its place, a new key goes last.
Put(d, k, v) ==
    IF Has(d, k)
    THEN [i \in 1..Len(d) |-> IF d[i][1] = k THEN <<k, v>> ELSE d[i]]
    ELSE Append(d, <<k, v>>)
RECURSIVE FilterFinalized(_, _)
\* The filter dropping every run the server has finalized as well.
FilterFinalized(d, drop) ==
    IF d = <<>> THEN <<>>
    ELSE IF Head(d)[2].stage = drop \/ Head(d)[2].finalized
         THEN FilterFinalized(Tail(d), drop)
         ELSE <<Head(d)>> \o FilterFinalized(Tail(d), drop)

RECURSIVE Filter(_, _)
\* {k: v for k, v in d.items() if v.stage != drop}
Filter(d, drop) ==
    IF d = <<>> THEN <<>>
    ELSE IF Head(d)[2].stage = drop THEN Filter(Tail(d), drop)
         ELSE <<Head(d)>> \o Filter(Tail(d), drop)
Values(d) == {d[i][2] : i \in 1..Len(d)}

----------------------------------------------------------------------------
\* BundleInfo and RunResources, reduced to what the manager reads: the uuid,
\* the dependencies' child paths, the requested CPU and GPU counts.  A path
\* is the sequence of its components.
DepPaths == {<<"dep">>}
Bundle(u) == [uuid |-> u, dependencies |-> DepPaths]
\* The resources the server sends with each bundle: one CPU each, and the
\* first bundle a GPU as well.
RunRequests(u) ==
    {IF u = "u1" THEN [cpus |-> 1, gpus |-> 1] ELSE [cpus |-> 1, gpus |-> 0]}

\* The LocalRunState create_run builds (timing, statistics, run_status,
\* docker_image, exitcode, failure_message and bundle_path are left out: no
\* operation of the manager reads them).
FreshRunState(bundle, resources) ==
    [stage |-> PREPARING,
     bundle |-> bundle,
     resources |-> resources,
     container_id |-> None,
     container |-> None,
     is_killed |-> FALSE,
     cpuset |-> None,
     gpuset |-> None,
     kill_message |-> None,
     finished |-> FALSE,
     finalized |-> FALSE]

----------------------------------------------------------------------------
\* assign_cpu_and_gpu_sets.

RECURSIVE FirstOf(_, _, _)
\* list(resource_set)[:request_count] as a set: the first request_count
\* elements of resource_set in the iteration order `order`.
FirstOf(order, resource_set, request_count) ==
    IF order = <<>> \/ request_count <= 0 THEN {}
    ELSE IF Head(order) \in resource_set
         THEN {Head(order)} \cup FirstOf(Tail(order), resource_set, request_count - 1)
         ELSE FirstOf(Tail(order), resource_set, request_count)

\* The slice taken one element too long.
propose_set_one_more(order, resource_set, request_count) ==
    FirstOf(order, resource_set, request_count + 1)

propose_set(order, resource_set, request_count) ==
    FirstOf(order, resource_set, request_count)

RECURSIVE MinusRunning(_, _, _)
\* The loop over self._runs.values(): every RUNNING run's set is taken out.
MinusRunning(set, d, field) ==
    IF d = <<>> THEN set
    ELSE LET rs == Head(d)[2] IN
         MinusRunning(IF rs.stage = RUNNING
                      THEN set \ (IF field = "cpuset" THEN Val(rs.cpuset) ELSE Val(rs.gpuset))
                      ELSE set,
                      Tail(d), field)

\* The allocator with the loop over the RUNNING runs left out.
FreeCpusIgnoringRuns(d, cpus) == cpus

FreeCpus(d, cpus) == MinusRunning(cpus, d, "cpuset")
FreeGpus(d, gpus) == MinusRunning(gpus, d, "gpuset")

\* The result: the proposed sets, or the exception with the three numbers of
\* its message.
assign_cpu_and_gpu_sets(d, cpus, gpus, order, request_cpus, request_gpus) ==
    LET cpuset == FreeCpus(d, cpus)
        gpuset == FreeGpus(d, gpus)
    IN  IF Cardinality(cpuset) < request_cpus
        THEN [ok |-> FALSE, resource |-> "CPUs", requested |-> request_cpus,
              available |-> Cardinality(cpuset), total |-> Cardinality(cpus)]
        ELSE IF Cardinality(gpuset) < request_gpus
        THEN [ok |-> FALSE, resource |-> "GPUs", requested |-> request_gpus,
              available |-> Cardinality(gpuset), total |-> Cardinality(gpus)]
        ELSE [ok |-> TRUE,
              cpuset |-> propose_set(order, cpuset, request_cpus),
              gpuset |-> propose_set(order, gpuset, request_gpus)]

\* What the call leaves in self._cpuset and self._gpuset: it works on copies
\* (set(self._cpuset), set(self._gpuset)), so the node's sets stay.
\* The allocator working on self._cpuset itself instead of a copy.
CpusetAliased(d, cpus) == FreeCpus(d, cpus)

CpusetAfterAssign(d, cpus) == cpus
GpusetAfterAssign(d, gpus) == gpus

----------------------------------------------------------------------------
\* LocalRunStateMachine.transition, from the specification's stage table.
\* w is what the transition can see and change: the registry as it stands
\* in this tick and the container runtime.  The result is the next RunState
\* and the runtime after the transition's side effects.

\* The container ids a dict of run states names.
IdsIn(d) ==
    UNION {(IF IsSome(r.container_id) THEN {Val(r.container_id)} ELSE {})
           \cup (IF IsSome(r.container) THEN {Val(r.container)} ELSE {}) : r \in Values(d)}

\* The runtime names a new container by an id that no container has and
\* that nothing refers to any more; MaxContainers ids exist.
FreeIds(w) == (1..MaxContainers) \ (w.rt.containers \cup w.held \cup IdsIn(w.runs))
NewId(w) == CHOOSE c \in FreeIds(w) : \A x \in FreeIds(w) : c <= x

transition_PREPARING(rs, w) ==
    IF rs.is_killed
    THEN [rs |-> [rs EXCEPT !.stage = CLEANING_UP], rt |-> w.rt]
    ELSE IF rs.bundle.uuid \notin w.ready
    THEN [rs |-> rs, rt |-> w.rt]
    ELSE LET a == assign_cpu_and_gpu_sets(w.runs, w.cpus, w.gpus, w.order,
                                          rs.resources.cpus, rs.resources.gpus)
         IN  IF ~a.ok
             THEN IF a.requested > a.total
                  THEN [rs |-> [rs EXCEPT !.stage = CLEANING_UP], rt |-> w.rt]
                  ELSE [rs |-> rs, rt |-> w.rt]
             ELSE IF FreeIds(w) = {}
             THEN \* the runtime cannot create a container now: retried next tick
                  [rs |-> rs, rt |-> w.rt]
             ELSE LET cid == NewId(w) IN
                  [rs |-> [rs EXCEPT !.stage = RUNNING,
                                     !.container_id = Some(cid),
                                     !.container = Some(cid),
                                     !.cpuset = Some(a.cpuset),
                                     !.gpuset = Some(a.gpuset)],
                   rt |-> [containers |-> w.rt.containers \cup {cid},
                           exited |-> w.rt.exited]]

transition_RUNNING(rs, w) ==
    IF ~IsSome(rs.container_id) \/ Val(rs.container_id) \notin w.rt.containers
    THEN \* the container disappeared: an abnormal exit
         [rs |-> [rs EXCEPT !.stage = CLEANING_UP], rt |-> w.rt]
    ELSE LET cid == Val(rs.container_id)
             \* a killed run's container is stopped, and the runtime honours it
             ex == IF rs.is_killed THEN w.rt.exited \cup {cid} ELSE w.rt.exited
             rt == [w.rt EXCEPT !.exited = ex]
         IN  IF cid \in ex
             THEN [rs |-> [rs EXCEPT !.stage = CLEANING_UP], rt |-> rt]
             ELSE [rs |-> rs, rt |-> rt]

transition(rs, w) ==
    CASE rs.stage = PREPARING -> transition_PREPARING(rs, w)
      [] rs.stage = RUNNING -> transition_RUNNING(rs, w)
      [] rs.stage = CLEANING_UP ->
            [rs |-> [rs EXCEPT !.stage = UPLOADING_RESULTS], rt |-> w.rt]
      [] rs.stage = UPLOADING_RESULTS ->
            [rs |-> [rs EXCEPT !.stage = FINALIZING, !.finished = TRUE], rt |-> w.rt]
      [] rs.stage = FINALIZING ->
            [rs |-> IF rs.finalized THEN [rs EXCEPT !.stage = FINISHED] ELSE rs,
             rt |-> w.rt]
      [] rs.stage = FINISHED -> [rs |-> rs, rt |-> w.rt]

----------------------------------------------------------------------------
\* process_runs: one tick, under the lock from its first line to its last.

RECURSIVE TransitionAll(_, _)
\* for bundle_uuid in self._runs.keys(): self._runs[bundle_uuid] = transition(...)
TransitionAll(keys, w) ==
    IF keys = <<>> THEN w
    ELSE LET t == transition(Get(w.runs, Head(keys)), w)
         IN  TransitionAll(Tail(keys),
                           [w EXCEPT !.runs = Put(w.runs, Head(keys), t.rs),
                                     !.rt = t.rt])

\* The handles of the runs in FINISHED alone.
finished_only_container_ids(d) ==
    {rs.container : rs \in {r \in Values(d) :
        r.stage = FINISHED /\ IsSome(r.container_id)}}

\* The live handles handed to containers.get(): those of the runs in FINISHED
\* or FINALIZING that have a container_id.
finished_container_ids(d) ==
    {rs.container : rs \in {r \in Values(d) :
        (r.stage = FINISHED \/ r.stage = FINALIZING) /\ IsSome(r.container_id)}}

\* containers.get(handle) then remove(force=True) for each; NotFound (the
\* container is gone) and NullResource (no handle) are passed over.
RemoveContainers(rt, handles) ==
    LET gone == {Val(h) : h \in {x \in handles : IsSome(x)}} IN
    [rt EXCEPT !.containers = @ \ gone, !.exited = @ \ gone]

KeySeq(d) == [i \in 1..Len(d) |-> d[i][1]]

process_runs(w) ==
    LET t == TransitionAll(KeySeq(w.runs), w)
    IN  [t EXCEPT !.rt = RemoveContainers(t.rt, finished_container_ids(t.runs)),
                  !.runs = Filter(t.runs, FINISHED)]

----------------------------------------------------------------------------
\* save_state and load_state.

\* BundleInfo.to_dict / from_dict and RunResources.to_dict / from_dict: the
\* object as the list of its <<field, value>> items, and back.
BundleToDict(b) == <<<<"uuid", b.uuid>>, <<"dependencies", b.dependencies>>>>
BundleFromDict(d) == [uuid |-> d[1][2], dependencies |-> d[2][2]]
ResourcesToDict(r) == <<<<"cpus", r.cpus>>, <<"gpus", r.gpus>>>>
ResourcesFromDict(d) == [cpus |-> d[1][2], gpus |-> d[2][2]]

\* JsonStateCommitter: a run state is written as the list of its field
\* values and read back field by field.
Serialize(rs) ==
    <<rs.stage, rs.bundle, rs.resources, rs.container_id, rs.container, rs.is_killed,
      rs.cpuset, rs.gpuset, rs.kill_message, rs.finished, rs.finalized>>
Deserialize(t) ==
    [stage |-> t[1], bundle |-> t[2], resources |-> t[3], container_id |-> t[4],
     container |-> t[5], is_killed |-> t[6], cpuset |-> t[7], gpuset |-> t[8],
     kill_message |-> t[9], finished |-> t[10], finalized |-> t[11]]

\* The snapshot save_state commits: the live handle dropped, bundle and
\* resources as dicts.
save_state(d) ==
    [i \in 1..Len(d) |->
        <<d[i][1],
          Serialize([d[i][2] EXCEPT !.container = None,
                                    !.bundle = BundleToDict(@),
                                    !.resources = ResourcesToDict(@)])>>]

\* load_state's loop taking every container as not found.
load_run_all_not_found(run_state, existing) ==
    [run_state EXCEPT !.container_id = None,
                      !.bundle = BundleFromDict(@),
                      !.resources = ResourcesFromDict(@)]

\* load_state's loop keeping the container_id of a container not found.
load_run_keeps_stale_id(run_state, existing) ==
    LET with_handle ==
            IF IsSome(run_state.container_id) /\ Val(run_state.container_id) \in existing
            THEN [run_state EXCEPT !.container = Some(Val(run_state.container_id))]
            ELSE run_state
    IN  [with_handle EXCEPT !.bundle = BundleFromDict(@),
                            !.resources = ResourcesFromDict(@)]

\* One iteration of load_state's loop: the handle is fetched from the
\* runtime by container_id, or container_id is cleared on NotFound.
load_run(run_state, existing) ==
    LET with_handle ==
            IF IsSome(run_state.container_id)
            THEN IF Val(run_state.container_id) \in existing
                 THEN [run_state EXCEPT !.container = Some(Val(run_state.container_id))]
                 ELSE [run_state EXCEPT !.container_id = None]
            ELSE run_state
    IN  [with_handle EXCEPT !.bundle = BundleFromDict(@),
                            !.resources = ResourcesFromDict(@)]

RECURSIVE load_state(_, _, _)
\* load_state: every run of the snapshot is stored into the registry d.
load_state(d, snapshot, existing) ==
    IF snapshot = <<>> THEN d
    ELSE load_state(Put(d, Head(snapshot)[1],
                        load_run(Deserialize(Head(snapshot)[2]), existing)),
                    Tail(snapshot), existing)

----------------------------------------------------------------------------
\* The state the operations act on.

nodeVars == <<node_cpuset, node_gpuset, set_order>>
rtVars == <<containers, exited>>
threadVars == <<kill_t, mf_t, create_t, stop_t, ka_t>>
diskVars == <<committed, networks, fs, saved, starts>>

Perms(S) ==
    {f \in [1..Cardinality(S) -> S] : \A i, j \in 1..Cardinality(S) : f[i] = f[j] => i = j}

Idle == [pc |-> "idle"]

IdOrder == [i \in 1..MaxIdx |-> IdxName[i]]

\* __init__: an empty registry, the configured sets, the three networks.
\* orders: the set iteration orders the process may have; cached: the
\* bundles whose image and dependencies are READY from the start.
Boot(orders, cached) ==
    /\ runs = <<>>
    /\ stop_flag = FALSE
    /\ node_cpuset = Indices(NumCpus)
    /\ node_gpuset = Indices(NumGpus)
    /\ set_order \in orders
    /\ containers = {}
    /\ exited = {}
    /\ ready = cached
    /\ committed = <<>>
    /\ networks = TRUE
    /\ fs = <<>>
    /\ kill_t = Idle
    /\ mf_t = Idle
    /\ create_t = Idle
    /\ stop_t = Idle
    /\ ka_t = Idle
    /\ saved = <<>>
    /\ starts = 0
    /\ last_op = [op |-> "init"]

\* The container ids that a thread's copy of a run state or a snapshot
\* still names.
HeldIds ==
    (IF kill_t.pc = "store" THEN IdsIn(<<<<"k", kill_t.rs>>>>) ELSE {})
    \cup IdsIn([i \in 1..Len(committed) |-> <<committed[i][1], Deserialize(committed[i][2])>>])
    \cup IdsIn(saved)

World ==
    [runs |-> runs, ready |-> ready, cpus |-> node_cpuset, gpus |-> node_gpuset,
     order |-> set_order,
     held |-> HeldIds,
     rt |-> [containers |-> containers, exited |-> exited]]

----------------------------------------------------------------------------
\* The environment: the image and dependency managers report a bundle READY;
\* a container exits by itself.

ImageReady(u) ==
    /\ Has(runs, u)
    /\ u \notin ready
    /\ ready' = ready \cup {u}
    /\ last_op' = [op |-> "env"]
    /\ UNCHANGED <<runs, stop_flag, nodeVars, rtVars, threadVars, diskVars>>

ContainerExit(c) ==
    /\ c \in containers \ exited
    /\ exited' = exited \cup {c}
    /\ last_op' = [op |-> "env"]
    /\ UNCHANGED <<runs, stop_flag, nodeVars, containers, ready,
                   threadVars, diskVars>>

----------------------------------------------------------------------------
\* process_runs as one step: the lock is held from the first transition to
\* the final filter.
ProcessRuns ==
    LET w == process_runs(World) IN
    /\ runs' = w.runs
    /\ containers' = w.rt.containers
    /\ exited' = w.rt.exited
    /\ last_op' = [op |-> "process_runs"]
    /\ UNCHANGED <<stop_flag, nodeVars, ready, threadVars, diskVars>>

----------------------------------------------------------------------------
\* create_run.  The check of self._stop (line 212) is made without the lock;
\* the insert (lines 247-248) is made under it.

\* create_run without the test of self._stop.
CreateRunCheckUnguarded(u, res) ==
    /\ create_t.pc = "idle"
    /\ create_t' = [pc |-> "insert", rs |-> FreshRunState(Bundle(u), res)]
    /\ last_op' = [op |-> "create_run", uuid |-> u, out |-> "checked"]
    /\ UNCHANGED <<runs, stop_flag, nodeVars, rtVars, ready, diskVars,
                   kill_t, mf_t, stop_t, ka_t>>

CreateRunCheck(u, res) ==
    /\ create_t.pc = "idle"
    /\ IF stop_flag
       THEN /\ create_t' = create_t
            /\ last_op' = [op |-> "create_run", uuid |-> u, out |-> "refused"]
       ELSE /\ create_t' = [pc |-> "insert", rs |-> FreshRunState(Bundle(u), res)]
            /\ last_op' = [op |-> "create_run", uuid |-> u, out |-> "checked"]
    /\ UNCHANGED <<runs, stop_flag, nodeVars, rtVars, ready, diskVars,
                   kill_t, mf_t, stop_t, ka_t>>

CreateRunInsert ==
    /\ create_t.pc = "insert"
    /\ runs' = Put(runs, create_t.rs.bundle.uuid, create_t.rs)
    /\ create_t' = Idle
    /\ last_op' = [op |-> "create_run", uuid |-> create_t.rs.bundle.uuid,
                   out |-> IF Has(runs, create_t.rs.bundle.uuid)
                           THEN "replaced" ELSE "inserted"]
    /\ UNCHANGED <<stop_flag, nodeVars, rtVars, ready, diskVars,
                   kill_t, mf_t, stop_t, ka_t>>

\* A whole call of create_run with no other thread in between.
CreateRun(u, res) ==
    /\ IF stop_flag
       THEN /\ runs' = runs
            /\ last_op' = [op |-> "create_run", uuid |-> u, out |-> "refused"]
       ELSE /\ runs' = Put(runs, u, FreshRunState(Bundle(u), res))
            /\ last_op' = [op |-> "create_run", uuid |-> u,
                           out |-> IF Has(runs, u) THEN "replaced" ELSE "inserted"]
    /\ UNCHANGED <<stop_flag, nodeVars, rtVars, ready, diskVars, threadVars>>

----------------------------------------------------------------------------
\* kill.  run_state is read without the lock (line 349); the replaced copy
\* is stored under it (lines 350-352).

kill_replace(run_state) ==
    [run_state EXCEPT !.kill_message = Some("Kill requested"), !.is_killed = TRUE]

KillRead(u) ==
    /\ kill_t.pc = "idle"
    /\ Has(runs, u)
    /\ kill_t' = [pc |-> "store", rs |-> Get(runs, u)]
    /\ last_op' = [op |-> "kill", uuid |-> u, out |-> "read"]
    /\ UNCHANGED <<runs, stop_flag, nodeVars, rtVars, ready, diskVars,
                   mf_t, create_t, stop_t, ka_t>>

KillStore ==
    /\ kill_t.pc = "store"
    /\ runs' = Put(runs, kill_t.rs.bundle.uuid, kill_replace(kill_t.rs))
    /\ kill_t' = Idle
    /\ last_op' = [op |-> "kill", uuid |-> kill_t.rs.bundle.uuid, out |-> "stored"]
    /\ UNCHANGED <<stop_flag, nodeVars, rtVars, ready, diskVars,
                   mf_t, create_t, stop_t, ka_t>>

\* A whole call of kill with no other thread in between.
Kill(u) ==
    /\ Has(runs, u)
    /\ runs' = Put(runs, u, kill_replace(Get(runs, u)))
    /\ last_op' = [op |-> "kill"]
    /\ UNCHANGED <<stop_flag, nodeVars, rtVars, ready, diskVars, threadVars>>

----------------------------------------------------------------------------
\* mark_finalized.  The membership test (line 301) is made without the
\* lock; the read and the store (line 303) are made under it, and the read
\* raises KeyError when the run has gone in between.

MarkFinalizedCheck(u) ==
    /\ mf_t.pc = "idle"
    /\ IF Has(runs, u)
       THEN /\ mf_t' = [pc |-> "store", uuid |-> u]
            /\ last_op' = [op |-> "mark_finalized", uuid |-> u, out |-> "checked"]
       ELSE /\ mf_t' = mf_t
            /\ last_op' = [op |-> "mark_finalized", uuid |-> u, out |-> "ignored"]
    /\ UNCHANGED <<runs, stop_flag, nodeVars, rtVars, ready, diskVars,
                   kill_t, create_t, stop_t, ka_t>>

MarkFinalizedStore ==
    /\ mf_t.pc = "store"
    /\ IF Has(runs, mf_t.uuid)
       THEN /\ runs' = Put(runs, mf_t.uuid, [Get(runs, mf_t.uuid) EXCEPT !.finalized = TRUE])
            /\ last_op' = [op |-> "mark_finalized", uuid |-> mf_t.uuid, out |-> "stored"]
       ELSE /\ runs' = runs
            /\ last_op' = [op |-> "mark_finalized", uuid |-> mf_t.uuid, out |-> "KeyError"]
    /\ mf_t' = Idle
    /\ UNCHANGED <<stop_flag, nodeVars, rtVars, ready, diskVars,
                   kill_t, create_t, stop_t, ka_t>>

\* A whole call of mark_finalized with no other thread in between.
MarkFinalized(u) ==
    /\ IF Has(runs, u)
       THEN runs' = Put(runs, u, [Get(runs, u) EXCEPT !.finalized = TRUE])
       ELSE runs' = runs
    /\ last_op' = [op |-> "mark_finalized"]
    /\ UNCHANGED <<stop_flag, nodeVars, rtVars, ready, diskVars, threadVars>>

----------------------------------------------------------------------------
\* kill_all.  Every run is marked under the lock (lines 165-169); then
\* range(KILL_TIMEOUT) sweeps, each under the lock and followed by a sleep
\* of one second (lines 171-182).

RECURSIVE MarkAll(_)
MarkAll(d) ==
    IF d = <<>> THEN <<>>
    ELSE <<<<Head(d)[1], [Head(d)[2] EXCEPT !.kill_message = Some("Worker stopped"),
                                            !.is_killed = TRUE]>>>>
         \o MarkAll(Tail(d))

KillAllMark ==
    /\ ka_t.pc = "idle"
    /\ runs' = MarkAll(runs)
    /\ ka_t' = [pc |-> "sweep", attempt |-> 0]
    /\ last_op' = [op |-> "kill_all", out |-> "marked"]
    /\ UNCHANGED <<stop_flag, nodeVars, rtVars, ready, diskVars,
                   kill_t, mf_t, create_t, stop_t>>

KillAllSweep ==
    /\ ka_t.pc = "sweep"
    /\ ka_t.attempt < KILL_TIMEOUT
    /\ runs' = Filter(runs, FINISHED)
    /\ ka_t' = [ka_t EXCEPT !.attempt = @ + 1]
    /\ last_op' = [op |-> "kill_all", out |-> "swept"]
    /\ UNCHANGED <<stop_flag, nodeVars, rtVars, ready, diskVars,
                   kill_t, mf_t, create_t, stop_t>>

KillAllReturn ==
    /\ ka_t.pc = "sweep"
    /\ ka_t.attempt = KILL_TIMEOUT
    /\ ka_t' = Idle
    /\ last_op' = [op |-> "kill_all", out |-> "returned"]
    /\ UNCHANGED <<runs, stop_flag, nodeVars, rtVars, ready, diskVars,
                   kill_t, mf_t, create_t, stop_t>>

----------------------------------------------------------------------------
\* A call of save_state.
SaveState ==
    /\ committed' = save_state(runs)
    /\ saved' = runs
    /\ last_op' = [op |-> "save_state"]
    /\ UNCHANGED <<runs, stop_flag, nodeVars, rtVars, ready, networks, fs, starts,
                   threadVars>>

\* The container runtime loses a container (removed from outside).
ContainerRemoved(c) ==
    /\ c \in containers
    /\ containers' = containers \ {c}
    /\ exited' = exited \ {c}
    /\ last_op' = [op |-> "env"]
    /\ UNCHANGED <<runs, stop_flag, nodeVars, ready, diskVars, threadVars>>

\* The worker process is started again: a new manager (__init__) and
\* start(), which loads the committed snapshot into the empty registry.
Start ==
    /\ starts < MaxStarts
    /\ starts' = starts + 1
    /\ runs' = load_state(<<>>, committed, containers)
    /\ stop_flag' = FALSE
    /\ set_order' \in Perms(Indices(MaxIdx))
    /\ networks' = TRUE
    /\ kill_t' = Idle /\ mf_t' = Idle /\ create_t' = Idle /\ stop_t' = Idle /\ ka_t' = Idle
    /\ last_op' = [op |-> "load_state"]
    /\ UNCHANGED <<node_cpuset, node_gpuset, rtVars, ready, committed, fs, saved>>

----------------------------------------------------------------------------
\* stop: the flag, the sub-managers (no state of this manager), the
\* snapshot, the networks.

StopSetFlag ==
    /\ stop_t.pc = "idle"
    /\ stop_flag' = TRUE
    /\ stop_t' = [pc |-> "save"]
    /\ last_op' = [op |-> "stop", out |-> "flag"]
    /\ UNCHANGED <<runs, nodeVars, rtVars, ready, diskVars, kill_t, mf_t, create_t, ka_t>>

StopSave ==
    /\ stop_t.pc = "save"
    /\ committed' = save_state(runs)
    /\ saved' = runs
    /\ stop_t' = [pc |-> "networks"]
    /\ last_op' = [op |-> "stop", out |-> "saved"]
    /\ UNCHANGED <<runs, stop_flag, nodeVars, rtVars, ready, networks, fs, starts,
                   kill_t, mf_t, create_t, ka_t>>

StopNetworks ==
    /\ stop_t.pc = "networks"
    /\ networks' = FALSE
    /\ stop_t' = [pc |-> "done"]
    /\ last_op' = [op |-> "stop", out |-> "stopped"]
    /\ UNCHANGED <<runs, stop_flag, nodeVars, rtVars, ready, committed, fs, saved,
                   starts, kill_t, mf_t, create_t, ka_t>>

\* A whole call of stop with no other thread in between.
Stop ==
    /\ stop_t.pc = "idle"
    /\ stop_flag' = TRUE
    /\ committed' = save_state(runs)
    /\ saved' = runs
    /\ networks' = FALSE
    /\ stop_t' = [pc |-> "done"]
    /\ last_op' = [op |-> "stop", out |-> "stopped"]
    /\ UNCHANGED <<runs, nodeVars, rtVars, ready, fs, starts,
                   kill_t, mf_t, create_t, ka_t>>

----------------------------------------------------------------------------
\* A call of assign_cpu_and_gpu_sets from outside a tick.  last_op keeps the
\* request and the result, and the result of the call just before it when
\* that was a call with the same request.
AssignCall(request_cpus, request_gpus) ==
    /\ node_cpuset' = CpusetAfterAssign(runs, node_cpuset)
    /\ node_gpuset' = GpusetAfterAssign(runs, node_gpuset)
    /\ last_op' =
         [op |-> "assign", cpus |-> request_cpus, gpus |-> request_gpus,
          result |-> assign_cpu_and_gpu_sets(runs, node_cpuset, node_gpuset, set_order,
                                             request_cpus, request_gpus),
          before |-> IF /\ last_op.op = "assign"
                        /\ last_op.cpus = request_cpus
                        /\ last_op.gpus = request_gpus
                     THEN Some(last_op.result) ELSE None]
    /\ UNCHANGED <<runs, stop_flag, set_order, rtVars, ready, diskVars, threadVars>>

----------------------------------------------------------------------------
\* write.  A path is the sequence of its components, relative to the bundle
\* directory.

PathNames == {"dep", "out", ".", ".."}
Paths == UNION {[1..n -> PathNames] : n \in 1..MaxPathLen}
Contents == {"a", "b"}

RECURSIVE NormComps(_, _)
\* os.path.normpath's loop over the components of a relative path: "." is
\* dropped, ".." takes back the component before it, or is kept when there
\* is none or that one is ".." itself.
NormComps(comps, new_comps) ==
    IF comps = <<>> THEN new_comps
    ELSE LET comp == Head(comps) IN
         IF comp = "." THEN NormComps(Tail(comps), new_comps)
         ELSE IF comp # ".." \/ new_comps = <<>> \/ new_comps[Len(new_comps)] = ".."
         THEN NormComps(Tail(comps), Append(new_comps, comp))
         ELSE NormComps(Tail(comps), SubSeq(new_comps, 1, Len(new_comps) - 1))

normpath(path) ==
    LET new_comps == NormComps(path, <<>>) IN
    IF new_comps = <<>> THEN <<".">> ELSE new_comps

\* The guard of write with the path compared as it was given.
write_refuses_as_given(path, dependencies) == path \in dependencies

\* The guard of write (line 317).
write_refuses(path, dependencies) == normpath(path) \in dependencies

RECURSIVE Walk(_, _)
\* Where the file system ends up when it follows path from the bundle
\* directory: up directories above it, then down the names in at.
Walk(path, loc) ==
    IF path = <<>> THEN loc
    ELSE LET comp == Head(path) IN
         Walk(Tail(path),
              IF comp = "." THEN loc
              ELSE IF comp = ".."
              THEN IF loc.at = <<>> THEN [loc EXCEPT !.up = @ + 1]
                   ELSE [loc EXCEPT !.at = SubSeq(@, 1, Len(@) - 1)]
              ELSE [loc EXCEPT !.at = Append(@, comp)])

Location(path) == Walk(path, [up |-> 0, at |-> <<>>])

\* The paths that name a file: following them does not end at the bundle
\* directory or at a directory above it (open() raises there).
FilePaths == {p \in Paths : Location(p).at # <<>>}

StoreFile(files, key, string) ==
    [k \in DOMAIN files \cup {key} |-> IF k = key THEN string ELSE files[k]]

\* A call of write; the model holds at most MaxFiles files.
Write(u, path, string) ==
    /\ Has(runs, u)
    /\ IF write_refuses(path, Get(runs, u).bundle.dependencies)
       THEN /\ fs' = fs
            /\ last_op' = [op |-> "write", uuid |-> u, path |-> path,
                           string |-> string, out |-> "refused"]
       ELSE /\ <<u, Location(path)>> \in DOMAIN fs \/ Cardinality(DOMAIN fs) < MaxFiles
            /\ fs' = StoreFile(fs, <<u, Location(path)>>, string)
            /\ last_op' = [op |-> "write", uuid |-> u, path |-> path,
                           string |-> string, out |-> "written"]
    /\ UNCHANGED <<runs, stop_flag, nodeVars, rtVars, ready, committed, networks,
                   saved, starts, threadVars>>

InitWrite == Boot({IdOrder}, UUIDs)

\* One bundle and the writes into its directory.
NextWrite ==
    \/ \E res \in RunRequests("u1") : CreateRun("u1", res)
    \/ \E path \in FilePaths, string \in Contents : Write("u1", path, string)

SpecWrite == InitWrite /\ [][NextWrite]_vars

----------------------------------------------------------------------------
\* The operations as whole calls, one after the other.
InitSeq == Boot({IdOrder}, {})

NextSeq ==
    \/ \E u \in UUIDs : \E res \in RunRequests(u) : CreateRun(u, res)
    \/ \E u \in UUIDs : Kill(u)
    \/ \E u \in UUIDs : MarkFinalized(u)
    \/ ProcessRuns
    \/ \E u \in UUIDs : ImageReady(u)
    \/ \E c \in containers : ContainerExit(c)

SpecSeq == InitSeq /\ [][NextSeq]_vars

\* The allocator called on the registries that create_run and the ticks
\* produce, under every set iteration order.
InitAlloc == Boot(Perms(Indices(MaxIdx)), UUIDs)

NextAlloc ==
    \/ \E u \in UUIDs : \E res \in RunRequests(u) : CreateRun(u, res)
    \/ ProcessRuns
    \/ \E c \in 0..(NumCpus + 1), g \in {0, 1, NumGpus + 1} : AssignCall(c, g)
    \/ \E c \in containers : ContainerExit(c)

SpecAlloc == InitAlloc /\ [][NextAlloc]_vars

\* The manager under threads: the ticking task and a caller of kill between
\* its unlocked read and its locked store, beside whole calls of create_run
\* and mark_finalized.
Init == Boot({IdOrder}, UUIDs)

Next ==
    \/ \E u \in UUIDs : \E res \in RunRequests(u) : CreateRun(u, res)
    \/ \E u \in UUIDs : KillRead(u)
    \/ KillStore
    \/ \E u \in UUIDs : MarkFinalized(u)
    \/ ProcessRuns
    \/ \E c \in containers : ContainerExit(c)

Spec == Init /\ [][Next]_vars

\* The manager while it stops: threads calling create_run, the ticking
\* task and the thread calling stop.
InitStop == Boot({IdOrder}, UUIDs)

NextStop ==
    \/ \E u \in UUIDs : \E res \in RunRequests(u) : CreateRunCheck(u, res)
    \/ CreateRunInsert
    \/ StopSetFlag
    \/ StopSave
    \/ StopNetworks
    \/ ProcessRuns
    \/ \E c \in containers : ContainerExit(c)

SpecStop == InitStop /\ [][NextStop]_vars

\* The worker over a restart: whole calls until stop() commits the snapshot
\* and the process exits, containers lost while the worker is down, and the
\* start of a new process.  The last process of a behaviour is only started.
InitSnap == Boot({IdOrder}, UUIDs)

Serving == stop_t.pc # "done" /\ starts < MaxStarts

NextSnap ==
    \/ Serving /\ \E u \in UUIDs : \E res \in RunRequests(u) : CreateRun(u, res)
    \/ Serving /\ \E u \in UUIDs : Kill(u)
    \/ Serving /\ \E u \in UUIDs : MarkFinalized(u)
    \/ Serving /\ ProcessRuns
    \/ Serving /\ Stop
    \/ \E c \in containers : ContainerExit(c)
    \/ \E c \in containers : ContainerRemoved(c)
    \/ stop_t.pc = "done" /\ Start

SpecSnap == InitSnap /\ [][NextSnap]_vars

\* The server's answer to a run it sees FINALIZING: mark_finalized.
ServerFinalize(u) ==
    /\ Has(runs, u)
    /\ Get(runs, u).stage = FINALIZING
    /\ ~Get(runs, u).finalized
    /\ MarkFinalized(u)

\* The manager with the ticking task scheduled fairly and a server that
\* answers every FINALIZING run; whole calls of create_run and kill.
InitLive == Boot({IdOrder}, UUIDs)

NextLive ==
    \/ \E u \in UUIDs : \E res \in RunRequests(u) : CreateRun(u, res)
    \/ \E u \in UUIDs : Kill(u)
    \/ \E u \in UUIDs : ServerFinalize(u)
    \/ ProcessRuns
    \/ \E c \in containers : ContainerExit(c)

\* ENABLED <<ProcessRuns>>_vars as a state predicate: a tick would change
\* the state.
TickChanges ==
    LET w == process_runs(World) IN
    \/ w.runs # runs
    \/ w.rt.containers # containers
    \/ w.rt.exited # exited
    \/ last_op # [op |-> "process_runs"]

\* The second conjunct is weak fairness of the tick, WF_vars(ProcessRuns),
\* written out with TickChanges for its ENABLED.
SpecLive ==
    /\ InitLive /\ [][NextLive]_vars
    /\ ([]<>(~TickChanges) \/ []<><<ProcessRuns>>_vars)
    /\ \A u \in UUIDs : WF_vars(ServerFinalize(u))

\* The manager with a caller of mark_finalized between its unlocked
\* membership test and its locked store, beside the ticking task and a
\* caller of kill_all.
InitMark == Boot({IdOrder}, UUIDs)

NextMark ==
    \/ \E u \in UUIDs : \E res \in RunRequests(u) : CreateRun(u, res)
    \/ \E u \in UUIDs : MarkFinalizedCheck(u)
    \/ MarkFinalizedStore
    \/ ProcessRuns
    \/ \E c \in containers : ContainerExit(c)
    \/ KillAllMark
    \/ KillAllSweep
    \/ KillAllReturn

SpecMark == InitMark /\ [][NextMark]_vars

\* Whole calls of every operation that writes the registry, the server
\* finalizing the runs it sees FINALIZING, beside a caller of kill_all
\* between its sweeps.
InitSweep == Boot({IdOrder}, {})

NextSweep ==
    \/ \E u \in UUIDs : \E res \in RunRequests(u) : CreateRun(u, res)
    \/ \E u \in UUIDs : Kill(u)
    \/ \E u \in UUIDs : ServerFinalize(u)
    \/ ProcessRuns
    \/ \E u \in UUIDs : ImageReady(u)
    \/ \E c \in containers : ContainerExit(c)
    \/ KillAllMark
    \/ KillAllSweep
    \/ KillAllReturn

SpecSweep == InitSweep /\ [][NextSweep]_vars

----------------------------------------------------------------------------
\* Properties.

RunAt(i) == runs[i][2]
RunningAt(i) == RunAt(i).stage = RUNNING

\* C1 (resource partition): after any sequence of whole calls of create_run,
\* process_runs, kill and mark_finalized, every RUNNING run has a cpuset and
\* a gpuset, both inside the node's sets, and two RUNNING runs share no CPU
\* index and no GPU index.
ResourcePartition ==
    \A i \in 1..Len(runs) :
        RunningAt(i) =>
            /\ IsSome(RunAt(i).cpuset)
            /\ IsSome(RunAt(i).gpuset)
            /\ Val(RunAt(i).cpuset) \subseteq node_cpuset
            /\ Val(RunAt(i).gpuset) \subseteq node_gpuset
            /\ Cardinality(Val(RunAt(i).cpuset)) = RunAt(i).resources.cpus
            /\ \A j \in 1..Len(runs) :
                  (j # i /\ RunningAt(j)) =>
                      /\ IsSome(RunAt(j).cpuset) /\ IsSome(RunAt(j).gpuset)
                      /\ Val(RunAt(i).cpuset) \cap Val(RunAt(j).cpuset) = {}
                      /\ Val(RunAt(i).gpuset) \cap Val(RunAt(j).gpuset) = {}

\* Two runs are RUNNING after a tick, one of them holding the GPU.
TwoRunningAfterTick ==
    /\ last_op.op = "process_runs"
    /\ Len(runs) = 2
    /\ RunningAt(1) /\ RunningAt(2)
    /\ \E i \in 1..2 : Val(RunAt(i).gpuset) # {}

\* C5 (idempotent create): a call of create_run for a uuid that is in the
\* registry leaves that uuid's RunState as it was.
CreateRunIsIdempotent ==
    [][\A u \in UUIDs :
          (last_op'.op = "create_run" /\ last_op'.uuid = u /\ Has(runs, u))
              => /\ Has(runs', u)
                 /\ Get(runs', u).stage = Get(runs, u).stage
                 /\ Get(runs', u).container_id = Get(runs, u).container_id
                 /\ Get(runs', u).cpuset = Get(runs, u).cpuset
                 /\ Get(runs', u).gpuset = Get(runs, u).gpuset
                 /\ Get(runs', u).is_killed = Get(runs, u).is_killed
                 /\ Get(runs', u).finalized = Get(runs, u).finalized]_vars

\* The indices no RUNNING run holds.
HeldCpus == UNION {Val(r.cpuset) : r \in {x \in Values(runs) : x.stage = RUNNING}}
HeldGpus == UNION {Val(r.gpuset) : r \in {x \in Values(runs) : x.stage = RUNNING}}
UnheldCpus == node_cpuset \ HeldCpus
UnheldGpus == node_gpuset \ HeldGpus

\* C8 (allocator result): a call of assign_cpu_and_gpu_sets returns sets of
\* exactly the requested sizes taken from the indices no RUNNING run holds,
\* or fails, exactly when the free CPUs or the free GPUs are fewer than
\* requested, with the requested, available and total counts.
AllocatorResult ==
    last_op.op = "assign" =>
        LET r == last_op.result IN
        /\ r.ok <=> (Cardinality(UnheldCpus) >= last_op.cpus
                     /\ Cardinality(UnheldGpus) >= last_op.gpus)
        /\ r.ok =>
              /\ Cardinality(r.cpuset) = last_op.cpus
              /\ Cardinality(r.gpuset) = last_op.gpus
              /\ r.cpuset \subseteq UnheldCpus
              /\ r.gpuset \subseteq UnheldGpus
        /\ (~r.ok /\ r.resource = "CPUs") =>
              /\ r.requested = last_op.cpus
              /\ r.available = Cardinality(UnheldCpus)
              /\ r.total = Cardinality(node_cpuset)
              /\ r.available < r.requested
        /\ (~r.ok /\ r.resource = "GPUs") =>
              /\ r.requested = last_op.gpus
              /\ r.available = Cardinality(UnheldGpus)
              /\ r.total = Cardinality(node_gpuset)
              /\ r.available < r.requested

\* A call succeeds while a RUNNING run holds a CPU and the GPU.
AssignedBesideRunning ==
    /\ last_op.op = "assign"
    /\ last_op.result.ok
    /\ last_op.cpus = 1
    /\ HeldCpus # {} /\ HeldGpus # {}

MonotoneStage ==
    [][\A u \in UUIDs :
          (Has(runs, u) /\ Has(runs', u))
              => StageIndex(Get(runs', u).stage) >= StageIndex(Get(runs, u).stage)]_vars

\* C10 (kill is advisory): the store that kill makes sets is_killed and
\* kill_message = "Kill requested" on the run as the registry holds it at
\* that moment, and changes no other field of it, no other run, and the set
\* of registered uuids.
KillIsAdvisory ==
    [][(kill_t.pc = "store" /\ kill_t'.pc = "idle") =>
          LET u == kill_t.rs.bundle.uuid IN
          /\ Has(runs, u)
          /\ runs' = Put(runs, u, kill_replace(Get(runs, u)))]_vars

\* C7 (create_run rejects when stopping): a call of create_run that starts
\* after stop() has set the flag changes nothing in the registry and will
\* not insert later; the insert of a call that passed the test stores, for
\* its uuid alone, a RunState with stage PREPARING, is_killed, finished and
\* finalized false, and no container_id, cpuset or gpuset.
CreateRunRejectsWhenStopping ==
    [][/\ (last_op'.op = "create_run" /\ create_t.pc = "idle" /\ stop_flag)
           => (runs' = runs /\ create_t' = Idle)
       /\ (last_op'.op = "create_run" /\ create_t.pc = "idle" /\ ~stop_flag)
           => (runs' = runs /\ create_t'.pc = "insert")
       /\ (create_t.pc = "insert" /\ create_t'.pc = "idle")
           => LET u == create_t.rs.bundle.uuid IN
              /\ Has(runs', u)
              /\ Get(runs', u).stage = PREPARING
              /\ ~Get(runs', u).is_killed
              /\ ~Get(runs', u).finished
              /\ ~Get(runs', u).finalized
              /\ Get(runs', u).container_id = None
              /\ Get(runs', u).cpuset = None
              /\ Get(runs', u).gpuset = None
              /\ Get(runs', u).bundle = Bundle(u)
              /\ Keys(runs') = Keys(runs) \cup {u}
              /\ \A v \in Keys(runs) \ {u} : Get(runs', v) = Get(runs, v)]_vars

\* A call of create_run is refused after stop() while a run is registered.
RefusedAfterStop ==
    /\ last_op.op = "create_run"
    /\ last_op.out = "refused"
    /\ stop_flag
    /\ runs # <<>>

KillConvergence ==
    \A u \in UUIDs :
        /\ (Has(runs, u) /\ Get(runs, u).kill_message = Some("Kill requested"))
              ~> (~Has(runs, u) \/ StageIndex(Get(runs, u).stage) >= StageIndex(CLEANING_UP))
        /\ (Has(runs, u) /\ Get(runs, u).kill_message = Some("Kill requested"))
              ~> ~Has(runs, u)

\* C11 (mark_finalized ignores unknown uuids): a step of mark_finalized
\* raises no error; its store sets finalized on the run when the uuid is
\* registered and leaves the registry unchanged when it is not, also when a
\* sweep removed the run after the membership test.
MarkFinalizedIgnoresUnknown ==
    [][last_op'.op = "mark_finalized" =>
          /\ last_op'.out # "KeyError"
          /\ (mf_t.pc = "store" /\ Has(runs, mf_t.uuid))
                => runs' = Put(runs, mf_t.uuid,
                               [Get(runs, mf_t.uuid) EXCEPT !.finalized = TRUE])
          /\ (mf_t.pc = "store" /\ ~Has(runs, mf_t.uuid)) => runs' = runs
          /\ mf_t.pc = "idle" => runs' = runs]_vars

\* C12 (shutdown sequencing): stop() sets the flag first, every run of the
\* snapshot it commits has is_killed raised (by kill_all, before the commit),
\* and the networks are removed only after the commit.
ShutdownSequencing ==
    /\ stop_t.pc # "idle" => stop_flag
    /\ stop_t.pc \in {"networks", "done"} =>
          \A i \in 1..Len(saved) : saved[i][2].is_killed
    /\ ~networks => stop_t.pc = "done"

\* C13 (kill_all return condition): kill_all makes no further sweep once a
\* sweep of its own has left the registry empty, and never makes more than
\* KILL_TIMEOUT sweeps.
KillAllReturnsWhenEmpty ==
    [][(ka_t.pc = "sweep" /\ ka_t'.pc = "sweep" /\ ka_t'.attempt = ka_t.attempt + 1) =>
          /\ ka_t.attempt < KILL_TIMEOUT
          /\ ~(last_op = [op |-> "kill_all", out |-> "swept"] /\ runs = <<>>)]_vars

\* C14 (finalized implies finished): every run of the registry with
\* finalized set has finished set.
FinalizedImpliesFinished ==
    \A i \in 1..Len(runs) : RunAt(i).finalized => RunAt(i).finished

\* C15 (removed only when FINISHED): a uuid that a step takes out of the
\* registry had stage FINISHED when it was dropped: in the registry before a
\* sweep of kill_all, or after the transitions of the tick that dropped it.
\* No other step takes a uuid out.
RemovedOnlyWhenFinished ==
    [][\A u \in Keys(runs) \ Keys(runs') :
          \/ /\ last_op'.op = "kill_all"
             /\ Get(runs, u).stage = FINISHED
          \/ /\ last_op'.op = "process_runs"
             /\ Get(TransitionAll(KeySeq(runs), World).runs, u).stage = FINISHED]_vars

\* A bundle that was registered has been dropped, and kill_all has returned
\* after its sweeps with a killed run still registered.
DroppedAndAbandoned ==
    /\ \E u \in ready : ~Has(runs, u)
    /\ last_op = [op |-> "kill_all", out |-> "returned"]
    /\ \E u \in Keys(runs) : Get(runs, u).is_killed /\ Get(runs, u).stage # FINISHED

\* C16 (no lost update): the run state that a store of kill is computed
\* from is the registry's entry for that uuid at the time of the store, so
\* the store overwrites no change made since the state was read.
NoLostUpdate ==
    [][(kill_t.pc = "store" /\ kill_t'.pc = "idle") =>
          /\ Has(runs, kill_t.rs.bundle.uuid)
          /\ Get(runs, kill_t.rs.bundle.uuid) = kill_t.rs]_vars

\* C17 (recovery of container handles): after load_state every run of the
\* snapshot is registered with its persisted stage; a run with a container_id
\* has the live handle and its container_id when the runtime has the
\* container, and neither when the runtime reports it not found; a run
\* without container_id is loaded as persisted.
HandleRecovery ==
    last_op.op = "load_state" =>
        \A i \in 1..Len(committed) :
            LET u == committed[i][1]
                p == Deserialize(committed[i][2])
                b == Get(runs, u)
            IN  /\ Has(runs, u)
                /\ b.stage = p.stage
                /\ IF IsSome(p.container_id)
                   THEN IF Val(p.container_id) \in containers
                        THEN /\ b.container = Some(Val(p.container_id))
                             /\ b.container_id = p.container_id
                        ELSE /\ b.container = None
                             /\ b.container_id = None
                   ELSE b = [p EXCEPT !.bundle = BundleFromDict(@),
                                      !.resources = ResourcesFromDict(@)]

\* A snapshot is loaded with a run whose container is live, a run whose
\* container is gone and so both cases of the lookup.
LoadedLiveAndStale ==
    /\ last_op.op = "load_state"
    /\ \E i \in 1..Len(committed) :
          /\ IsSome(Deserialize(committed[i][2]).container_id)
          /\ Val(Deserialize(committed[i][2]).container_id) \in containers
          /\ Deserialize(committed[i][2]).stage = RUNNING
    /\ \E i \in 1..Len(committed) :
          /\ IsSome(Deserialize(committed[i][2]).container_id)
          /\ Val(Deserialize(committed[i][2]).container_id) \notin containers

NoResurrection ==
    [][\A u \in UUIDs :
          (~Has(runs, u) /\ Has(runs', u))
              => (last_op'.op = "create_run" /\ last_op'.uuid = u)]_vars

\* C20 (no run lost at shutdown): once stop() has committed the snapshot,
\* every run of the registry is in that snapshot; create_run inserts none
\* after the commit.
NoRunLostAtShutdown ==
    stop_t.pc \in {"networks", "done"} => Keys(runs) \subseteq Keys(saved)

====
